---- MODULE Spec2Model ----
(***************************************************************************)
(* Model of app/services/auth.py: the Token issuer/verifier (Token.create, *)
(* Token.decode and their scope-specific wrappers) and the Auth service    *)
(* (authenticate, refresh, logout, __call__) running as concurrent         *)
(* requests against one shared user/token store.                           *)
(*                                                                         *)
(* Time is a clock of ticks.  jose's jwt.encode writes "iat" and "exp" as  *)
(* whole seconds (timegm of the datetime), so a token string carries       *)
(* ToIntDate(now), while "expired_at" keeps the full clock reading.        *)
(***************************************************************************)
EXTENDS Integers, FiniteSets, Sequences, TLC

\* ------------------------------------------------------------------ bounds
MaxTime == 6
MaxIssue == 3
NumProcs == 2
TicksPerSecond == 2
SecondsPerMinute == 1

Procs == 1..NumProcs

\* --------------------------------------------------------------- settings
ACCESS_EXPIRED == 1
REFRESH_EXPIRED == 2
DEFAULT_EXPIRED == 1
SECRET == "secret"

\* ------------------------------------------------------------ TokenScopes
ACCESS == "access_token"
REFRESH == "refresh_token"
Scopes == {ACCESS, REFRESH}

\* ------------------------------------------------------------------ users
NoUser == 0
Null == "<null>"
Missing == "<missing>"

\* users.models.User rows: unique email, unique username; the username of
\* user 2 is the email of user 1.
UserRow(u) ==
    IF u = 1 THEN [email |-> "a", username |-> "x", password |-> [digest |-> "p1"]]
             ELSE [email |-> "b", username |-> "a", password |-> [digest |-> "p2"]]

AllUsers == {1, 2}

\* ------------------------------------------------------------ HTTP errors
not_found_error ==
    [status |-> 404, detail |-> "User not found", headers |-> "none"]
invalid_credential_error ==
    [status |-> 401, detail |-> "Invalid username or password", headers |-> "none"]
invalid_refresh_token_error ==
    [status |-> 401, detail |-> "Invalid refresh token", headers |-> "none"]
credentionals_exception ==
    [status |-> 401, detail |-> "Could not validate credentials",
     headers |-> "WWW-Authenticate: Bearer"]
scope_error ==
    [status |-> 401, detail |-> "Invalid scope for token", headers |-> "none"]
decode_error ==
    [status |-> 401, detail |-> "Could not validate credentials", headers |-> "none"]
\* pyload["email"] on a payload without that key: an unhandled KeyError.
key_error ==
    [status |-> 500, detail |-> "KeyError: 'email'", headers |-> "none"]

Err(e) == [kind |-> "error", err |-> e]
Ok(v) == [kind |-> "ok", val |-> v]

\* --------------------------------------------------------------- Password
hash(password) == [digest |-> password]
verify(password, h) == h = hash(password)

\* ------------------------------------------------------------- TokenCoder
\* datetime -> intDate, as jwt.encode does for the "iat" and "exp" claims.
ToIntDate(t) == t \div TicksPerSecond

timedelta(minutes) == minutes * SecondsPerMinute * TicksPerSecond

\* jwt.encode: the signed string is a function of the claims and the secret.
coder_encode(claims, secret) ==
    [email |-> claims.email, iat |-> ToIntDate(claims.iat),
     exp |-> ToIntDate(claims.exp), scope |-> claims.scope, sig |-> secret]

\* jwt.decode refusing a token already at the second of its "exp".
coder_decode_strict(token, secret, t) ==
    IF token.sig # secret THEN Err("JWTError")
    ELSE IF token.exp <= ToIntDate(t) THEN Err("JWTError")
    ELSE Ok([email |-> token.email, iat |-> token.iat,
             exp |-> token.exp, scope |-> token.scope])

\* jwt.decode: signature check, then the "exp" check (exp < now fails).
coder_decode(token, secret, t) ==
    IF token.sig # secret THEN Err("JWTError")
    ELSE IF token.exp < ToIntDate(t) THEN Err("JWTError")
    ELSE Ok([email |-> token.email, iat |-> token.iat,
             exp |-> token.exp, scope |-> token.scope])

\* ------------------------------------------------------------------ Token
None == -1000

\* create without the ttl: "exp" is the issue time.
create_expiring_now(data, scope, expires_delta, t) ==
    LET to_encode_data == [email |-> data.email, iat |-> t,
                           exp |-> t, scope |-> scope]
    IN  [token |-> coder_encode(to_encode_data, SECRET),
         expired_at |-> t, scope |-> scope]

create(data, scope, expires_delta, t) ==
    LET expired == IF expires_delta # None /\ expires_delta # 0
                   THEN t + timedelta(expires_delta)
                   ELSE t + timedelta(DEFAULT_EXPIRED)
        to_encode_data == [email |-> data.email, iat |-> t,
                           exp |-> expired, scope |-> scope]
    IN  [token |-> coder_encode(to_encode_data, SECRET),
         expired_at |-> expired, scope |-> scope]

\* decode without the scope test of line 54.
decode_any_scope(token, scope, t) ==
    LET r == coder_decode(token, SECRET, t)
    IN  IF r.kind = "error" THEN Err(decode_error) ELSE Ok(r.val)

decode(token, scope, t) ==
    LET r == coder_decode(token, SECRET, t)
    IN  IF r.kind = "error" THEN Err(decode_error)
        ELSE IF r.val.scope = scope THEN Ok(r.val)
        ELSE Err(scope_error)

create_access(data, expires_delta, t) ==
    create(data, ACCESS,
           IF expires_delta # None /\ expires_delta # 0
           THEN expires_delta ELSE ACCESS_EXPIRED, t)

create_refresh(data, expires_delta, t) ==
    create(data, REFRESH,
           IF expires_delta # None /\ expires_delta # 0
           THEN expires_delta ELSE REFRESH_EXPIRED, t)

decode_access(token, t) == decode(token, ACCESS, t)

decode_refresh(token, t) == decode(token, REFRESH, t)

\* A string that is not a token signed with SECRET.
BadToken ==
    [email |-> "a", iat |-> 0, exp |-> MaxTime, scope |-> REFRESH, sig |-> "forged"]


\* ------------------------------------------------------------------ state
VARIABLES
    now,        \* the clock, datetime.now(UTC), in ticks
    users,      \* rows of the users table (ids)
    store,      \* rows of the tokens table: [id, token, expired_at, owner]
    nextId,     \* next primary key of the tokens table
    pc,         \* per request: position in the handler
    op,         \* per request: the handler that runs
    arg,        \* per request: the token string or the credentials
    usr,        \* per request: the row __get_user returned (NoUser if none)
    rec,        \* per request: the row the refresh lookup returned
    result,     \* per request: what the handler returned or raised
    newrec,     \* per request: id of the row this call persisted (0 if none)
    known,      \* token strings handed out in TokenPairs so far
    consumed,   \* token strings whose row a refresh call has deleted
    stale,      \* per request: the argument was in consumed when the call began
    payload,    \* per request: the claims decode_refresh / decode_access returned
    lab         \* a direct use of the Token class: create, then decode

vars == <<now, users, store, nextId, pc, op, arg, usr, rec, result, newrec,
          known, consumed, stale, payload, lab>>

authVars == <<users, store, nextId, pc, op, arg, usr, rec, result, newrec,
              known, consumed, stale, payload>>

NoRec == [id |-> 0]
NoArg == [none |-> TRUE]
NoPayload == [none |-> TRUE]
Idle == [kind |-> "idle"]
LabIdle == [phase |-> "idle"]

InFlight(p) == pc[p] # "done"

AuthInit ==
    /\ users = AllUsers
    /\ store = {}
    /\ nextId = 1
    /\ pc = [p \in Procs |-> "done"]
    /\ op = [p \in Procs |-> "none"]
    /\ arg = [p \in Procs |-> NoArg]
    /\ usr = [p \in Procs |-> NoUser]
    /\ rec = [p \in Procs |-> NoRec]
    /\ result = [p \in Procs |-> Idle]
    /\ newrec = [p \in Procs |-> 0]
    /\ known = {}
    /\ consumed = {}
    /\ stale = [p \in Procs |-> FALSE]
    /\ payload = [p \in Procs |-> NoPayload]

Init ==
    /\ now = 0
    /\ AuthInit
    /\ lab = LabIdle

\* ------------------------------------------------------- the repositories
\* db.query(UserModel).filter(or_(email == username, username == username))
MatchingUsers(username) ==
    {u \in users : UserRow(u).email = username \/ UserRow(u).username = username}

\* .first() on a query without ORDER BY: any matching row, None if there is none.
get_user(username) ==
    IF MatchingUsers(username) = {} THEN {NoUser} ELSE MatchingUsers(username)

\* The column of TokensModel the refresh lookup compares with the string.
RefreshColumn(r) == r.token

\* db.query(TokensModel).filter(TokensModel.refresh == s).first()
find_refresh(s) ==
    IF {r \in store : RefreshColumn(r) = s} = {} THEN {NoRec}
    ELSE {r \in store : RefreshColumn(r) = s}

\* validate without the password test of line 92.
validate_user_only(user, credentials) == user # NoUser

\* Auth.validate
validate(user, credentials) ==
    IF user = NoUser THEN FALSE
    ELSE IF ~verify(credentials.password, UserRow(user).password) THEN FALSE
    ELSE TRUE

\* The pair with the refresh token under "access" and the access token under
\* "refresh".
TokenPair_swapped(user, t) ==
    LET access_token == create_access([email |-> UserRow(user).email], None, t)
        refresh_token == create_refresh([email |-> UserRow(user).email], None, t)
    IN  [kind |-> "pair",
         access |-> [token |-> refresh_token.token,
                     expired_at |-> refresh_token.expired_at],
         refresh |-> [token |-> access_token.token,
                      expired_at |-> access_token.expired_at],
         type |-> "bearer"]

\* The TokenPair Auth.__generate_tokens builds for user at clock reading t.
TokenPair(user, t) ==
    LET access_token == create_access([email |-> UserRow(user).email], None, t)
        refresh_token == create_refresh([email |-> UserRow(user).email], None, t)
    IN  [kind |-> "pair",
         access |-> [token |-> access_token.token,
                     expired_at |-> access_token.expired_at],
         refresh |-> [token |-> refresh_token.token,
                      expired_at |-> refresh_token.expired_at],
         type |-> "bearer"]

\* The row built from the access token instead of the refresh token.
TokenRow_access(user, t, id) ==
    LET access_token == create_access([email |-> UserRow(user).email], None, t)
    IN  [id |-> id, token |-> access_token.token,
         expired_at |-> access_token.expired_at, owner |-> user]

\* The row Auth.__generate_tokens appends to user.tokens.
TokenRow(user, t, id) ==
    LET refresh_token == create_refresh([email |-> UserRow(user).email], None, t)
    IN  [id |-> id, token |-> refresh_token.token,
         expired_at |-> refresh_token.expired_at, owner |-> user]

\* ----------------------------------------------------- starting a request
\* Calls that may issue a pair are admitted while ids remain (MaxIssue).
Issuing == {p \in Procs : InFlight(p) /\ op[p] \in {"authenticate", "refresh"}}
CanIssue == (nextId - 1) + Cardinality(Issuing) < MaxIssue

Begin(p, o, a) ==
    /\ op' = [op EXCEPT ![p] = o]
    /\ arg' = [arg EXCEPT ![p] = a]
    /\ newrec' = [newrec EXCEPT ![p] = 0]
    /\ stale' = [stale EXCEPT ![p] = a \in consumed]

Finish(p, r) ==
    /\ pc' = [pc EXCEPT ![p] = "done"]
    /\ result' = [result EXCEPT ![p] = r]

Continue(p, next) ==
    /\ pc' = [pc EXCEPT ![p] = next]
    /\ result' = [result EXCEPT ![p] = Idle]

TokenArgs == known \cup {BadToken}

\* ----------------------------------------------------------- authenticate
\* lines 110-112: user lookup, validate, raise or go on to issue.
authenticate(p, credentials) ==
    /\ pc[p] = "done"
    /\ CanIssue
    /\ Begin(p, "authenticate", credentials)
    /\ payload' = [payload EXCEPT ![p] = NoPayload]
    /\ rec' = [rec EXCEPT ![p] = NoRec]
    /\ \E user \in get_user(credentials.username) :
          /\ usr' = [usr EXCEPT ![p] = user]
          /\ IF ~validate(user, credentials)
             THEN Finish(p, Err(invalid_credential_error))
             ELSE Continue(p, "generate")
    /\ UNCHANGED <<now, users, store, nextId, known, consumed, lab>>

\* __generate_tokens, lines 118-128: both tokens, the new row, commit, the pair.
generate_tokens(p) ==
    /\ pc[p] = "generate"
    /\ store' = store \cup {TokenRow(usr[p], now, nextId)}
    /\ newrec' = [newrec EXCEPT ![p] = nextId]
    /\ nextId' = nextId + 1
    /\ known' = known \cup {TokenPair(usr[p], now).access.token,
                            TokenPair(usr[p], now).refresh.token}
    /\ Finish(p, TokenPair(usr[p], now))
    /\ UNCHANGED <<now, users, op, arg, usr, rec, consumed, stale, payload, lab>>

\* refresh that clears the rows of the presented token before verifying it.
refresh_delete_first(p, refres_token_str) ==
    /\ pc[p] = "done"
    /\ CanIssue
    /\ Begin(p, "refresh", refres_token_str)
    /\ store' = {r \in store : RefreshColumn(r) # refres_token_str}
    /\ LET decoded == decode_refresh(refres_token_str, now)
       IN  IF decoded.kind = "error"
           THEN /\ Finish(p, decoded)
                /\ payload' = [payload EXCEPT ![p] = NoPayload]
                /\ rec' = [rec EXCEPT ![p] = NoRec]
                /\ usr' = [usr EXCEPT ![p] = NoUser]
           ELSE /\ Continue(p, "r_delete")
                /\ payload' = [payload EXCEPT ![p] = decoded.val]
                /\ \E r \in find_refresh(refres_token_str) :
                      rec' = [rec EXCEPT ![p] = r]
                /\ \E user \in get_user(decoded.val.email) :
                      usr' = [usr EXCEPT ![p] = user]
    /\ UNCHANGED <<now, users, nextId, known, consumed, lab>>

\* ---------------------------------------------------------------- refresh
\* lines 97-101: decode_refresh raises, or the handler reads the row with
\* this token string and the user of the payload's "email".
refresh(p, refres_token_str) ==
    /\ pc[p] = "done"
    /\ CanIssue
    /\ Begin(p, "refresh", refres_token_str)
    /\ LET decoded == decode_refresh(refres_token_str, now)
       IN  IF decoded.kind = "error"
           THEN /\ Finish(p, decoded)
                /\ payload' = [payload EXCEPT ![p] = NoPayload]
                /\ rec' = [rec EXCEPT ![p] = NoRec]
                /\ usr' = [usr EXCEPT ![p] = NoUser]
           ELSE /\ Continue(p, "r_delete")
                /\ payload' = [payload EXCEPT ![p] = decoded.val]
                /\ \E r \in find_refresh(refres_token_str) :
                      rec' = [rec EXCEPT ![p] = r]
                /\ \E user \in get_user(decoded.val.email) :
                      usr' = [usr EXCEPT ![p] = user]
    /\ UNCHANGED <<now, users, store, nextId, known, consumed, lab>>

\* The test of line 105.
refresh_rejects(user, r) == user = NoUser \/ r = NoRec \/ r.owner # user

\* The final checks first, the delete only for a call that passes them.
refresh_delete_checked(p) ==
    /\ pc[p] = "r_delete"
    /\ IF refresh_rejects(usr[p], rec[p])
       THEN /\ Finish(p, Err(credentionals_exception))
            /\ UNCHANGED <<store, consumed>>
       ELSE /\ store' = {r \in store : r.id # rec[p].id}
            /\ consumed' = consumed \cup {rec[p].token}
            /\ pc' = [pc EXCEPT ![p] = "generate"]
            /\ UNCHANGED result
    /\ UNCHANGED <<now, users, nextId, op, arg, usr, rec, newrec, known,
                   stale, payload, lab>>

\* The checks without the delete of lines 102-104.
refresh_delete_kept(p) ==
    /\ pc[p] = "r_delete"
    /\ IF refresh_rejects(usr[p], rec[p])
       THEN Finish(p, Err(credentionals_exception))
       ELSE /\ pc' = [pc EXCEPT ![p] = "generate"]
            /\ UNCHANGED result
    /\ UNCHANGED <<now, users, store, nextId, op, arg, usr, rec, newrec, known,
                   consumed, stale, payload, lab>>

\* lines 102-106: delete the row found and commit, then raise or go on to
\* issue.  Deleting a row another request has deleted already changes nothing.
refresh_delete(p) ==
    /\ pc[p] = "r_delete"
    /\ IF rec[p] # NoRec
       THEN /\ store' = {r \in store : r.id # rec[p].id}
            /\ consumed' = consumed \cup {rec[p].token}
       ELSE UNCHANGED <<store, consumed>>
    /\ IF refresh_rejects(usr[p], rec[p])
       THEN Finish(p, Err(credentionals_exception))
       ELSE /\ pc' = [pc EXCEPT ![p] = "generate"]
            /\ UNCHANGED result
    /\ UNCHANGED <<now, users, nextId, op, arg, usr, rec, newrec, known,
                   stale, payload, lab>>

\* logout deleting the rows that hold the token string.
logout_revoking(p, token_str) ==
    /\ pc[p] = "done"
    /\ Begin(p, "logout", token_str)
    /\ payload' = [payload EXCEPT ![p] = NoPayload]
    /\ Finish(p, [kind |-> "none"])
    /\ usr' = [usr EXCEPT ![p] = NoUser]
    /\ rec' = [rec EXCEPT ![p] = NoRec]
    /\ store' = {r \in store : r.token # token_str}
    /\ UNCHANGED <<now, users, nextId, known, consumed, lab>>

\* ------------------------------------------------------- logout, __call__
logout(p, token_str) ==
    /\ pc[p] = "done"
    /\ Begin(p, "logout", token_str)
    /\ payload' = [payload EXCEPT ![p] = NoPayload]
    /\ Finish(p, [kind |-> "none"])
    /\ usr' = [usr EXCEPT ![p] = NoUser]
    /\ rec' = [rec EXCEPT ![p] = NoRec]
    /\ UNCHANGED <<now, users, store, nextId, known, consumed, lab>>

\* __call__ raising the generic 401 where line 142 raises not_found_error.
call_unauthorized(p, token) ==
    /\ pc[p] = "done"
    /\ Begin(p, "call", token)
    /\ rec' = [rec EXCEPT ![p] = NoRec]
    /\ payload' = [payload EXCEPT ![p] =
                      IF decode_access(token, now).kind = "error" THEN NoPayload
                      ELSE decode_access(token, now).val]
    /\ LET pyload == decode_access(token, now)
       IN  IF pyload.kind = "error"
           THEN Finish(p, pyload) /\ usr' = [usr EXCEPT ![p] = NoUser]
           ELSE IF pyload.val.email = Missing
           THEN Finish(p, Err(key_error)) /\ usr' = [usr EXCEPT ![p] = NoUser]
           ELSE IF pyload.val.email = Null
           THEN Finish(p, Err(credentionals_exception))
                /\ usr' = [usr EXCEPT ![p] = NoUser]
           ELSE \E user \in get_user(pyload.val.email) :
                  /\ usr' = [usr EXCEPT ![p] = user]
                  /\ Finish(p, IF user = NoUser THEN Err(credentionals_exception)
                               ELSE [kind |-> "user", user |-> user])
    /\ UNCHANGED <<now, users, store, nextId, known, consumed, lab>>

\* Auth.__call__, lines 136-143.
call(p, token) ==
    /\ pc[p] = "done"
    /\ Begin(p, "call", token)
    /\ rec' = [rec EXCEPT ![p] = NoRec]
    /\ payload' = [payload EXCEPT ![p] =
                      IF decode_access(token, now).kind = "error" THEN NoPayload
                      ELSE decode_access(token, now).val]
    /\ LET pyload == decode_access(token, now)
       IN  IF pyload.kind = "error"
           THEN Finish(p, pyload) /\ usr' = [usr EXCEPT ![p] = NoUser]
           ELSE IF pyload.val.email = Missing
           THEN Finish(p, Err(key_error)) /\ usr' = [usr EXCEPT ![p] = NoUser]
           ELSE IF pyload.val.email = Null
           THEN Finish(p, Err(credentionals_exception))
                /\ usr' = [usr EXCEPT ![p] = NoUser]
           ELSE \E user \in get_user(pyload.val.email) :
                  /\ usr' = [usr EXCEPT ![p] = user]
                  /\ Finish(p, IF user = NoUser THEN Err(not_found_error)
                               ELSE [kind |-> "user", user |-> user])
    /\ UNCHANGED <<now, users, store, nextId, known, consumed, lab>>

\* ------------------------------------------------------------ environment
\* A user row is deleted between requests; its token rows lose their owner.
DeleteUser(u) ==
    /\ u \in users
    /\ \A p \in Procs : ~InFlight(p)
    /\ users' = users \ {u}
    /\ store' = {IF r.owner = u THEN [r EXCEPT !.owner = NoUser] ELSE r : r \in store}
    /\ UNCHANGED <<now, nextId, pc, op, arg, usr, rec, result, newrec, known,
                   consumed, stale, payload, lab>>

\* Access tokens signed with SECRET whose claims carry "email": None or no
\* "email" at all (Token.create_access is open to any claims mapping).
SignedArgs ==
    {create_access([email |-> e], None, now).token : e \in {Null, Missing}}

\* The bearer strings handed to __call__.
CallArgs == TokenArgs \cup SignedArgs

Credentials ==
    {[username |-> "x", password |-> "p1"], [username |-> "x", password |-> "p2"],
     [username |-> "a", password |-> "p2"], [username |-> "q", password |-> "p1"]}

\* The clock moves on to the next instant at which a request reads it.
Instants == {0, 1, MaxTime}

Tick ==
    /\ \E t \in Instants :
          /\ t > now
          /\ \A s \in Instants : s > now => t <= s
          /\ now' = t
    /\ UNCHANGED <<authVars, lab>>

\* Concurrent requests that issue and rotate tokens.
Next ==
    \/ \E p \in Procs, c \in Credentials : authenticate(p, c)
    \/ \E p \in Procs : generate_tokens(p)
    \/ \E p \in Procs, t \in TokenArgs : refresh(p, t)
    \/ \E p \in Procs : refresh_delete(p)
    \/ \E u \in AllUsers : DeleteUser(u)
    \/ Tick

Spec == Init /\ [][Next]_vars

\* One client, one request at a time, every handler.
NextSeq ==
    \/ \E c \in Credentials : authenticate(1, c)
    \/ generate_tokens(1)
    \/ \E t \in TokenArgs : refresh(1, t)
    \/ refresh_delete(1)
    \/ \E t \in TokenArgs : logout(1, t)
    \/ \E t \in CallArgs : call(1, t)
    \/ \E u \in AllUsers : DeleteUser(u)
    \/ Tick

SpecSeq == Init /\ [][NextSeq]_vars

\* One client under the scheduling the service has: the clock advances, and a
\* request that has started runs to its end.
SpecSeqFair ==
    /\ SpecSeq
    /\ WF_vars(Tick)
    /\ WF_vars(generate_tokens(1))
    /\ WF_vars(refresh_delete(1))

\* ------------------------------------------------- the Token class alone
\* Claims mappings and ttl arguments handed to create_access/create_refresh.
LabData == {[email |-> "a"], [email |-> Null], [email |-> Missing]}
LabDeltas == {None, 0, 1, 3, -1}

\* Token.create_access / Token.create_refresh, lines 60-64.
LabCreate(data, scope, expires_delta) ==
    /\ lab.phase # "created"
    /\ LET made == IF scope = ACCESS THEN create_access(data, expires_delta, now)
                   ELSE create_refresh(data, expires_delta, now)
       IN  lab' = [phase |-> "created", token |-> made.token,
                   expired_at |-> made.expired_at, made |-> made.scope,
                   data |-> data, delta |-> expires_delta, made_at |-> now]
    /\ UNCHANGED <<now, authVars>>

\* A string that no create call returned.
LabForge ==
    /\ lab.phase # "created"
    /\ lab' = [phase |-> "created", token |-> BadToken, expired_at |-> 0,
               made |-> "forged", data |-> [email |-> "a"], delta |-> None,
               made_at |-> now]
    /\ UNCHANGED <<now, authVars>>

\* Token.decode_access / Token.decode_refresh, lines 66-70.
LabDecode(scope) ==
    /\ lab.phase = "created"
    /\ lab' = [phase |-> "decoded", token |-> lab.token,
               expired_at |-> lab.expired_at, made |-> lab.made,
               data |-> lab.data, delta |-> lab.delta, made_at |-> lab.made_at,
               want |-> scope, at |-> now,
               res |-> IF scope = ACCESS THEN decode_access(lab.token, now)
                       ELSE decode_refresh(lab.token, now)]
    /\ UNCHANGED <<now, authVars>>

NextTok ==
    \/ \E d \in LabData, sc \in Scopes, dl \in LabDeltas : LabCreate(d, sc, dl)
    \/ LabForge
    \/ \E sc \in Scopes : LabDecode(sc)
    \/ Tick

SpecTok == Init /\ [][NextTok]_vars

TypeOK == now \in 0..MaxTime

\* ------------------------------------------------------------- properties
Done(p, o) == pc[p] = "done" /\ op[p] = o
IsPair(r) == r.kind = "pair"
IsError(r) == r.kind = "error"
InStore(id) == \E r \in store : r.id = id

\* C1: two concurrent refresh calls with the same token string that both
\* looked up the same row never both return a TokenPair.
C1_NoDoubleRedeem ==
    \A p \in Procs : \A q \in Procs \ {p} :
        (/\ Done(p, "refresh") /\ Done(q, "refresh")
         /\ arg[p] = arg[q]
         /\ rec[p] # NoRec /\ rec[p] = rec[q])
        => ~(IsPair(result[p]) /\ IsPair(result[q]))

\* C2: in a sequence of calls, a refresh call given a token string that an
\* earlier refresh call has consumed fails and returns no TokenPair.
C2_SingleUse ==
    (Done(1, "refresh") /\ stale[1]) => IsError(result[1])

\* C3: a token made by create_access or create_refresh, verified with the
\* other scope, is refused with a 401 Unauthorized error and yields no claims.
C3_ScopeSeparation ==
    (lab.phase = "decoded" /\ lab.made \in Scopes /\ lab.want # lab.made)
    => (IsError(lab.res) /\ lab.res.err.status = 401)

\* The other scope is refused although signature and expiry are in order.
C3_Witness ==
    /\ lab.phase = "decoded"
    /\ lab.made = ACCESS /\ lab.want = REFRESH
    /\ coder_decode(lab.token, SECRET, lab.at).kind = "ok"
    /\ IsError(lab.res)

\* C4: every failure of Token.decode is the same error outcome (status and
\* detail), whether the decode failed or the scope did not match.
C4_OneFailureOutcome ==
    (lab.phase = "decoded" /\ IsError(lab.res)) => lab.res = Err(decode_error)

\* C5: a refresh call that passed verification and found a row has deleted
\* that row by the time it returns or fails.
C5_FoundRowConsumed ==
    \A p \in Procs :
        (Done(p, "refresh") /\ rec[p] # NoRec) => ~InStore(rec[p].id)

\* A refresh call that failed its final checks and still consumed the row.
C5_Witness ==
    \E p \in Procs :
        /\ Done(p, "refresh") /\ rec[p] # NoRec
        /\ IsError(result[p])
        /\ rec[p].token \in consumed

\* C6: a refresh call whose token verified but whose user or row is absent,
\* or whose row belongs to another user, fails with "Invalid refresh token".
C6_InvalidRefreshTokenError ==
    \A p \in Procs :
        (/\ Done(p, "refresh")
         /\ payload[p] # NoPayload
         /\ refresh_rejects(usr[p], rec[p]))
        => result[p] = Err(invalid_refresh_token_error)

\* The user that owns the tokens issued for an email.
OwnerOf(email) == {u \in users : UserRow(u).email = email}

\* C7: an issued refresh token, unexpired, not redeemed before and with its
\* owner present, is found and rotated: a fresh pair for the same user and a
\* new row in the store.
C7_RefreshSucceeds ==
    (/\ Done(1, "refresh")
     /\ arg[1] \in known /\ arg[1].scope = REFRESH
     /\ payload[1] # NoPayload
     /\ ~stale[1]
     /\ OwnerOf(arg[1].email) # {})
    => (/\ rec[1] # NoRec
        /\ IsPair(result[1])
        /\ result[1].refresh.token.email = arg[1].email
        /\ result[1].access.token.email = arg[1].email
        /\ newrec[1] # 0
        /\ \E r \in store : r.id = newrec[1] /\ r.owner \in OwnerOf(arg[1].email))

\* C8: within a refresh call the old row is gone before the new row is
\* persisted: the store never holds the redeemed row beside its replacement.
C8_DeleteBeforeIssue ==
    \A p \in Procs :
        (op[p] = "refresh" /\ newrec[p] # 0 /\ InStore(newrec[p]))
        => ~InStore(rec[p].id)

\* A rotation has completed: the replacement is stored, the old row is not.
C8_Witness ==
    \E p \in Procs :
        /\ Done(p, "refresh") /\ IsPair(result[p])
        /\ rec[p] # NoRec /\ InStore(newrec[p]) /\ ~InStore(rec[p].id)

BadCredentials(p) ==
    usr[p] = NoUser \/ ~verify(arg[p].password, UserRow(usr[p]).password)

\* C9: authenticate raises the one "Invalid username or password" error for an
\* absent user and for a wrong password, and persists nothing in either case.
C9_InvalidCredentials ==
    \A p \in Procs :
        (Done(p, "authenticate") /\ BadCredentials(p))
        => (result[p] = Err(invalid_credential_error) /\ newrec[p] = 0)

\* One request failed on an absent user, another on a wrong password.
C9_Witness ==
    \E p \in Procs : \E q \in Procs :
        /\ Done(p, "authenticate") /\ usr[p] = NoUser
        /\ Done(q, "authenticate") /\ usr[q] # NoUser /\ BadCredentials(q)
        /\ result[p] = result[q]
        /\ IsError(result[p])

\* A clock reading within the second a token was issued.
IssuedAt(token) == token.iat * TicksPerSecond

Issued(p) == pc[p] = "generate" /\ pc'[p] = "done"

\* C11: a successful authenticate or refresh persists exactly one new row,
\* owned by the user of the call, with the token string and expiry of the
\* refresh token it returns; no stored row ever holds an access-token string.
C11_OneRowPerIssue ==
    /\ [][\A p \in Procs :
            Issued(p) =>
              /\ IsPair(result'[p])
              /\ \E r \in store' :
                    /\ r \notin store
                    /\ store' = store \cup {r}
                    /\ r.owner = usr[p]
                    /\ r.token = result'[p].refresh.token
                    /\ r.expired_at = result'[p].refresh.expired_at]_vars
    /\ [](\A r \in store : r.token.scope # ACCESS /\ r.token \in known)

\* A refresh has returned a pair and its row is stored under the new id.
C11_Witness ==
    \E p \in Procs :
        /\ Done(p, "refresh") /\ IsPair(result[p])
        /\ \E r \in store : /\ r.id = newrec[p]
                            /\ r.token = result[p].refresh.token
                            /\ r.owner = usr[p]

\* The payload of a __call__ carries a subject to look up.
HasSubject(p) ==
    payload[p] # NoPayload /\ payload[p].email \notin {Null, Missing}

\* C12: __call__ with an access token that verifies but whose subject matches
\* no user fails with 404 "User not found", and that error is raised only
\* after access-scope verification has succeeded.
C12_UserNotFound ==
    /\ (Done(1, "call") /\ HasSubject(1) /\ usr[1] = NoUser)
       => result[1] = Err(not_found_error)
    /\ (Done(1, "call") /\ result[1] = Err(not_found_error))
       => (payload[1] # NoPayload /\ payload[1].scope = ACCESS)

\* An issued access token, its user deleted, answered with 404.
C12_Witness ==
    /\ Done(1, "call") /\ arg[1] \in known
    /\ payload[1] # NoPayload
    /\ OwnerOf(arg[1].email) = {}
    /\ result[1] = Err(not_found_error)

\* C13: __call__ with a validly signed access token whose "email" claim is
\* null or absent fails with the 401 "Could not validate credentials" error
\* in both cases.
C13_NoSubjectUnauthorized ==
    (/\ Done(1, "call")
     /\ payload[1] # NoPayload
     /\ payload[1].email \in {Null, Missing})
    => result[1] = Err(credentionals_exception)

\* C14: every logout step, whatever its token argument, returns None and
\* leaves the store as it was, so a refresh token handed to logout keeps its
\* row.
C14_LogoutNoOp ==
    [][\A t \in TokenArgs :
          logout(1, t) =>
            /\ result'[1] = [kind |-> "none"]
            /\ store' = store
            /\ {r \in store' : r.token = t} = {r \in store : r.token = t}]_vars

\* logout was given a stored, unexpired refresh token and its row is still
\* there.
C14_Witness ==
    /\ Done(1, "logout")
    /\ arg[1] \in known /\ arg[1].scope = REFRESH
    /\ decode_refresh(arg[1], now).kind = "ok"
    /\ \E r \in store : r.token = arg[1]

C16_ExpiredEventuallyRemoved ==
    \A i \in 1..MaxIssue :
        (\E r \in store : r.id = i /\ r.expired_at < now) ~> ~InStore(i)

\* C18: two separate issuances never produce the same refresh-token string:
\* the store never holds two rows with one token string, and the refresh
\* token returned by refresh differs from the token just redeemed.
C18_IssuancesDiffer ==
    /\ \A r1 \in store : \A r2 \in store :
          r1.id # r2.id => r1.token # r2.token
    /\ (Done(1, "refresh") /\ IsPair(result[1]))
          => result[1].refresh.token # arg[1]

\* C19: resolving an access token issued to a user who is still present
\* returns that very user, whatever other rows match the subject.
C19_IdentityPreserved ==
    (/\ Done(1, "call")
     /\ arg[1] \in known /\ arg[1].scope = ACCESS
     /\ payload[1] # NoPayload
     /\ OwnerOf(arg[1].email) # {})
    => (/\ result[1].kind = "user"
        /\ result[1].user \in OwnerOf(arg[1].email))

\* The steps that must leave the store alone: an authenticate that fails, a
\* refresh whose token fails refresh-scope verification, and every resolve.
FrameStep ==
    \/ (\E c \in Credentials : authenticate(1, c)) /\ IsError(result'[1])
    \/ /\ \E t \in TokenArgs :
             refresh(1, t) /\ decode_refresh(t, now).kind = "error"
    \/ \E t \in CallArgs : call(1, t)

\* C20: authenticate with invalid credentials, refresh with a token that
\* fails refresh-scope verification, and every resolve call add and delete
\* no record.
C20_FailuresLeaveStore ==
    [][FrameStep => (store' = store /\ nextId' = nextId)]_vars

\* A refresh refused for an expired token whose row is still in the store.
C20_Witness ==
    /\ Done(1, "refresh")
    /\ arg[1] \in known /\ arg[1].scope = REFRESH
    /\ decode_refresh(arg[1], now).kind = "error"
    /\ IsError(result[1])
    /\ \E r \in store : r.token = arg[1]

====
